---- MODULE Spec2Model ----
(***************************************************************************)
(* Model of the username monitor of aresceo/sniper                         *)
(* (src/username_monitor.py) and of the collaborators its scheduling loop  *)
(* reads and writes (src/database.py, src/userbot.py).                     *)
(*                                                                         *)
(* A username is a Python str; it is modelled as the sequence of its       *)
(* character codes so that sorted() orders usernames as Python does        *)
(* (lexicographically, a proper prefix first).                             *)
(***************************************************************************)
EXTENDS Integers, Sequences, FiniteSets, TLC

\* ------------------------------------------------------------------ bounds
\* Longest username list handed to distribute_usernames.
MaxNames == 4
\* Largest client_count handed to distribute_usernames.
MaxDistClients == 4

\* Most start_monitoring coroutines alive at once.
MaxTasks == 2
\* Most connected clients in the account manager's pool.
MaxClients == 3
\* Longest list of monitored usernames in the store.
MaxStore == 2
\* round_counter is followed up to this value.
MaxRounds == 2
\* Longest wait a FloodWaitError asks for, in seconds.
MaxFloodWait == 2
\* Most accounts handed to create_channel_with_fallback.
MaxPhones == 2

\* The usernames the store draws from: "a", "ab", "b".
StorePool == {<<1>>, <<1, 2>>, <<2>>}

\* The usernames the inputs are drawn from: "a", "ab", "b", "c", "d".
UsernamePool == {<<1>>, <<1, 2>>, <<2>>, <<3>>, <<4>>}

\* ------------------------------------------------------- python built-ins
Range(s) == {s[i] : i \in 1..Len(s)}

Min2(a, b) == IF a <= b THEN a ELSE b

\* str.__lt__: the first differing character decides; a proper prefix is smaller.
StrLess(a, b) ==
    \/ \E i \in 1..Min2(Len(a), Len(b)) :
          /\ \A j \in 1..(i - 1) : a[j] = b[j]
          /\ a[i] < b[i]
    \/ /\ Len(a) < Len(b)
       /\ \A j \in 1..Len(a) : a[j] = b[j]

\* One insertion step of the sort: x goes before the first element greater than it.
RECURSIVE InsertSorted(_, _)
InsertSorted(x, s) ==
    IF s = <<>> THEN <<x>>
    ELSE IF StrLess(x, Head(s)) THEN <<x>> \o s
    ELSE <<Head(s)>> \o InsertSorted(x, Tail(s))

\* A sort that forgets to sort (the arrival order is kept).
Unsorted(usernames) == usernames

\* sorted(usernames): ascending, stable.
RECURSIVE sorted(_)
sorted(usernames) ==
    IF usernames = <<>> THEN <<>>
    ELSE InsertSorted(usernames[Len(usernames)],
                      sorted(SubSeq(usernames, 1, Len(usernames) - 1)))

\* --------------------------------------------------- distribute_usernames
\* Round-robin that starts at the second client (index off by one).
RECURSIVE RoundRobinShifted(_, _, _, _)
RoundRobinShifted(chunks, sorted_usernames, client_count, i) ==
    IF i >= Len(sorted_usernames) THEN chunks
    ELSE RoundRobinShifted(
            [chunks EXCEPT ![((i + 1) % client_count) + 1] = Append(@, sorted_usernames[i + 1])],
            sorted_usernames, client_count, i + 1)

\* Round-robin that stops after one pass: every client gets one username and
\* the rest are left out.
RoundRobinOnePass(chunks, sorted_usernames, client_count, i) ==
    [k \in 1..client_count |-> <<sorted_usernames[k]>>]

\* for i, username in enumerate(sorted_usernames):
\*     chunks[i % client_count].append(username)
\* (i is the 0-based position; chunks is 1-based here).
RECURSIVE RoundRobin(_, _, _, _)
RoundRobin(chunks, sorted_usernames, client_count, i) ==
    IF i >= Len(sorted_usernames) THEN chunks
    ELSE RoundRobin(
            [chunks EXCEPT ![(i % client_count) + 1] = Append(@, sorted_usernames[i + 1])],
            sorted_usernames, client_count, i + 1)

\* Surplus clients left without a list.
SurplusIdle(sorted_usernames, client_count) ==
    [k \in 1..client_count |->
        IF k <= Len(sorted_usernames) THEN <<sorted_usernames[k]>> ELSE <<>>]

\* More clients than usernames: chunks[i].append(username) for each sorted
\* username, then chunks[client_index] = sorted_usernames.copy() for the rest.
Surplus(sorted_usernames, client_count) ==
    [k \in 1..client_count |->
        IF k <= Len(sorted_usernames) THEN <<sorted_usernames[k]>> ELSE sorted_usernames]

\* Nothing returned for an empty username list.
DistributeNoEmptyLists(usernames, client_count) ==
    IF client_count = 0 \/ Len(usernames) = 0 THEN <<>>
    ELSE IF Len(usernames) >= client_count
         THEN RoundRobin([k \in 1..client_count |-> <<>>], sorted(usernames), client_count, 0)
         ELSE Surplus(sorted(usernames), client_count)

distribute_usernames(usernames, client_count) ==
    IF client_count = 0 THEN <<>>
    ELSE IF Len(usernames) = 0 THEN [k \in 1..client_count |-> <<>>]
    ELSE LET sorted_usernames == sorted(usernames)
             chunks == [k \in 1..client_count |-> <<>>]
         IN  IF Len(usernames) >= client_count
             THEN RoundRobin(chunks, sorted_usernames, client_count, 0)
             ELSE Surplus(sorted_usernames, client_count)

\* ------------------------------------------------------------------ state
VARIABLES
    d_usernames,     \* distribute_usernames: the usernames argument
    d_client_count,  \* distribute_usernames: the client_count argument
    d_chunks,        \* distribute_usernames: the value returned
    d_returned,      \* whether the call has returned
    monitoring,      \* UsernameMonitor.monitoring
    db_usernames,    \* usernames.json: the active usernames, in file order
    db_last_checked, \* usernames.json: the usernames whose last_checked is set,
                     \*   in the order of their timestamps (oldest first)
    db_config,       \* config.json: check_interval and pair_delay
    clients,         \* number of connected clients of AccountManager.clients
    task,            \* the start_monitoring coroutines: locals and position
    p_exc,           \* check_username_availability alone: what get_entity does
    p_pc,            \*   "called", "sleeping" (line 30) or "returned"
    p_value,         \*   the value returned
    c_clients,       \* create_channel_with_fallback alone: the phones of its
                     \*   clients argument in the order clients.items() gives
    c_at,            \*   position in c_clients of the client being tried
    c_pc,            \*   the request create_channel awaits, or "returned"
    c_error,         \*   e of the except clause at line 59
    c_channel,       \*   per phone: the channel its create_channel call made
    c_attempts,      \*   the create_channel calls that returned, in order
    c_result,        \*   the value create_channel_with_fallback returned
    f_username,      \* on_username_found: its username argument
    f_pc,            \*   what it awaits: "dispatch" (line 320) or "notify"
                     \*   (line 334), or how it ended: "returned", "raised"
    db_sniped,       \* sniped_usernames.json: the history records, in file order
    s_call           \* update_username_check alone: its last call (the username,
                     \*   whether _load_json could read, whether _save_json could write)

distVars == <<d_usernames, d_client_count, d_chunks, d_returned>>
schedVars == <<monitoring, db_usernames, db_last_checked, db_config, clients, task>>
probeVars == <<p_exc, p_pc, p_value>>
claimVars == <<c_clients, c_at, c_pc, c_error, c_channel, c_attempts, c_result>>
foundVars == <<f_username, f_pc, db_sniped>>
storeVars == <<s_call>>
restVars == <<distVars, probeVars, claimVars, foundVars, storeVars>>
vars == <<d_usernames, d_client_count, d_chunks, d_returned,
          monitoring, db_usernames, db_last_checked, db_config, clients, task,
          p_exc, p_pc, p_value,
          c_clients, c_at, c_pc, c_error, c_channel, c_attempts, c_result,
          f_username, f_pc, db_sniped, s_call>>

\* Lists of distinct usernames (the store refuses a username it already holds).
RECURSIVE UniqueLists(_, _)
UniqueLists(S, n) ==
    IF n = 0 THEN {<<>>}
    ELSE LET shorter == UniqueLists(S, n - 1)
         IN  shorter \cup {Append(s, x) : s \in {t \in shorter : Len(t) = n - 1}, x \in S}

NoDuplicates(s) == \A i, j \in 1..Len(s) : s[i] = s[j] => i = j

\* ------------------------------------------------------ the scheduling loop
\* A start_monitoring coroutine runs without interruption from one await to
\* the next (asyncio is cooperative), so each action below is the code from
\* the completion of one await up to the next await or the return.  task[l]
\* holds the locals of coroutine l; pc names the await it is suspended at:
\*   "probe"          await client.get_entity(...)            (line 24)
\*   "flood_wait"     await asyncio.sleep(e.seconds)          (line 30)
\*   "check_interval" await asyncio.sleep(check_interval)     (line 107)
\*   "callback"       await found_callback(username)          (line 241)
\*   "pair_delay"     await asyncio.sleep(pair_delay)         (line 254)
\*   "backoff"        await asyncio.sleep(30)                 (lines 163, 189)
\*   "none"           no coroutine (not called yet, or returned)
\*   "empty_turn"     a turn with an empty checklist, which awaits nothing; the
\*                    clients of active_client_indices have a non-empty list
\*                    and an alternating client takes one username, so no
\*                    turn is ever in it
\* The h_ fields are history: they record what the coroutine has done and are
\* read by no step.
Tasks == 1..MaxTasks

NoStop == [pc |-> "none", pos |-> 0, cb |-> 0]

NoTask ==
    [pc |-> "none", client_count |-> 0, check_interval |-> 0, pair_delay |-> 0,
     usernames |-> <<>>, username_chunks |-> <<>>, active_client_indices |-> <<>>,
     current_index |-> 0, round_counter |-> 0, client_index |-> 0,
     usernames_to_check |-> <<>>, pos |-> 0, available_usernames |-> <<>>, cb |-> 0,
     seconds |-> 0,           \* e.seconds of the FloodWaitError being slept (line 30)
     h_owed |-> 0,            \* seconds of the last rate-limit answer not yet waited
     h_exit |-> "none",       \* how the last start_monitoring call in this slot ended
     h_epoch_turns |-> 0,     \* turns finished in the current epoch
     h_round_turns |-> <<>>,  \* client indices given a turn in the current round
     h_epoch_probes |-> {},   \* <<round, client index, username>> probed in the epoch
     h_stop |-> NoStop,       \* where it was at the last stop_monitoring of this turn
                              \* (forgotten when a later start_monitoring raises the flag)
     h_last_dropped |-> <<>>] \* found in the turn that ended last, callback never invoked

InLoop(t) == t.pc # "none"

\* start_monitoring is over: it returned, or it raised to its caller
\* (start_monitoring_loop, src/userbot.py lines 336-341).
Returned(reason) == [NoTask EXCEPT !.h_exit = reason]

\* The outcomes of client.get_entity as check_username_availability tells
\* them apart (lines 24-46).
OracleOutcomes ==
    {"entity",            \* get_entity returned an entity
     "not_occupied",      \* UsernameNotOccupiedError
     "flood",             \* FloodWaitError
     "value_no_user",     \* ValueError: "No user has ... as username"
     "value_other",       \* any other ValueError
     "error_not_found",   \* Exception whose text has "no user"/"not found"/"does not exist"
     "error_other"}       \* any other Exception

\* e.seconds of a FloodWaitError, the shortest and the longest wait; the
\* other outcomes carry none.
FloodSeconds(outcome) == IF outcome = "flood" THEN {1, MaxFloodWait} ELSE {0}

\* The value check_username_availability returns for an outcome.
check_username_availability(outcome) ==
    outcome \in {"not_occupied", "value_no_user", "error_not_found"}

\* ------------------------------------------- check_username_availability
\* What client.get_entity does (line 24): it returns an entity (class
\* "none"), or raises an exception of a class with a text, str(e), a string
\* of characters; a FloodWaitError carries e.seconds.  The classes are the
\* except clauses of lines 26-39 in their order: "Exception" is every
\* exception the first three clauses do not catch.
ExceptionClasses ==
    {"none", "UsernameNotOccupiedError", "FloodWaitError", "ValueError", "Exception"}

\* 'No user has "a" as username'
TextNoUserHas ==
    <<"N", "o", " ", "u", "s", "e", "r", " ", "h", "a", "s", " ", "\"",
      "a", "\"", " ", "a", "s", " ", "u", "s", "e", "r", "n", "a", "m", "e">>

\* 'no user has "a" as username'
TextNoUserHasLower ==
    <<"n", "o", " ", "u", "s", "e", "r", " ", "h", "a", "s", " ", "\"",
      "a", "\"", " ", "a", "s", " ", "u", "s", "e", "r", "n", "a", "m", "e">>

\* 'as username'
TextAsUsername ==
    <<"a", "s", " ", "u", "s", "e", "r", "n", "a", "m", "e">>

\* 'Cannot find "a"'
TextCannotFind ==
    <<"C", "a", "n", "n", "o", "t", " ", "f", "i", "n", "d", " ", "\"",
      "a", "\"">>

\* 'User not found'
TextUserNotFound ==
    <<"U", "s", "e", "r", " ", "n", "o", "t", " ", "f", "o", "u", "n", "d">>

\* 'NO USER'
TextNoUser ==
    <<"N", "O", " ", "U", "S", "E", "R">>

\* 'does not exist'
TextDoesNotExist ==
    <<"d", "o", "e", "s", " ", "n", "o", "t", " ", "e", "x", "i", "s", "t">>

\* 'Timeout'
TextTimeout ==
    <<"T", "i", "m", "e", "o", "u", "t">>

Texts ==
    {<<>>, TextNoUserHas, TextNoUserHasLower, TextAsUsername, TextCannotFind,
     TextUserNotFound, TextNoUser, TextDoesNotExist, TextTimeout}

NoException == [class |-> "none", text |-> <<>>, seconds |-> 0]

\* phrase in text (lines 34, 42): text has phrase as a substring.
In(phrase, text) ==
    \E i \in 1..(Len(text) - Len(phrase) + 1) :
        SubSeq(text, i, i + Len(phrase) - 1) = phrase

UpperCase ==
    <<"A", "B", "C", "D", "E", "F", "G", "H", "I", "J", "K", "L", "M",
      "N", "O", "P", "Q", "R", "S", "T", "U", "V", "W", "X", "Y", "Z">>

LowerCase ==
    <<"a", "b", "c", "d", "e", "f", "g", "h", "i", "j", "k", "l", "m",
      "n", "o", "p", "q", "r", "s", "t", "u", "v", "w", "x", "y", "z">>

\* str.lower() (line 41).
lower(text) ==
    [i \in 1..Len(text) |->
        IF \E k \in 1..26 : UpperCase[k] = text[i]
        THEN LowerCase[CHOOSE k \in 1..26 : UpperCase[k] = text[i]]
        ELSE text[i]]

\* "No user has", "as username" (line 34).
NoUserHas == <<"N", "o", " ", "u", "s", "e", "r", " ", "h", "a", "s">>

AsUsername == <<"a", "s", " ", "u", "s", "e", "r", "n", "a", "m", "e">>

\* ["no user", "not found", "does not exist"] (line 42).
Indicators ==
    {<<"n", "o", " ", "u", "s", "e", "r">>,
     <<"n", "o", "t", " ", "f", "o", "u", "n", "d">>,
     <<"d", "o", "e", "s", " ", "n", "o", "t", " ", "e", "x", "i", "s", "t">>}

\* A prober without the except ValueError clause: a ValueError falls to the
\* except Exception clause.
OutcomeNoValueErrorClause(exc) ==
    IF exc.class = "none" THEN "entity"
    ELSE IF exc.class = "UsernameNotOccupiedError" THEN "not_occupied"
    ELSE IF exc.class = "FloodWaitError" THEN "flood"
    ELSE IF \E indicator \in Indicators : In(indicator, lower(exc.text))
         THEN "error_not_found"
         ELSE "error_other"

\* The branch check_username_availability takes (lines 22-46).
Outcome(exc) ==
    IF exc.class = "none" THEN "entity"
    ELSE IF exc.class = "UsernameNotOccupiedError" THEN "not_occupied"
    ELSE IF exc.class = "FloodWaitError" THEN "flood"
    ELSE IF exc.class = "ValueError"
         THEN (IF In(NoUserHas, exc.text) /\ In(AsUsername, exc.text)
               THEN "value_no_user"
               ELSE "value_other")
    ELSE IF \E indicator \in Indicators : In(indicator, lower(exc.text))
         THEN "error_not_found"
         ELSE "error_other"

\* A checklist whose alternating client ignores the round and always takes
\* the first username.
ChecklistAlwaysFirst(t, client_index) ==
    LET chunk == t.username_chunks[client_index + 1]
    IN  IF Len(t.usernames) >= t.client_count THEN chunk
        ELSE IF client_index < Len(t.usernames)
             THEN (IF chunk # <<>> THEN <<chunk[1]>> ELSE <<>>)
             ELSE <<t.usernames[1]>>

\* A checklist that takes only the first username of the chunk in every
\* regime.
ChecklistFirstOfChunk(t, client_index) ==
    LET chunk == t.username_chunks[client_index + 1]
    IN  IF Len(t.usernames) >= t.client_count
        THEN (IF chunk # <<>> THEN <<chunk[1]>> ELSE <<>>)
        ELSE IF client_index < Len(t.usernames)
             THEN (IF chunk # <<>> THEN <<chunk[1]>> ELSE <<>>)
             ELSE <<t.usernames[(t.round_counter % Len(t.usernames)) + 1]>>

\* The checklist of a turn (lines 208-227).
ChecklistOf(t, client_index) ==
    LET chunk == t.username_chunks[client_index + 1]
    IN  IF Len(t.usernames) >= t.client_count THEN chunk
        ELSE IF client_index < Len(t.usernames)
             THEN (IF chunk # <<>> THEN <<chunk[1]>> ELSE <<>>)
             ELSE <<t.usernames[(t.round_counter % Len(t.usernames)) + 1]>>

\* An inner loop that never looks at the flag.
TurnHeadIgnoresFlag(t, mon) ==
    LET client_index == t.active_client_indices[t.current_index + 1]
        usernames_to_check == ChecklistOf(t, client_index)
    IN  [t EXCEPT !.client_index = client_index,
                  !.usernames_to_check = usernames_to_check,
                  !.available_usernames = <<>>,
                  !.cb = 0,
                  !.pos = IF usernames_to_check = <<>> THEN 0 ELSE 1,
                  !.pc = IF usernames_to_check = <<>> THEN "empty_turn" ELSE "probe",
                  !.h_round_turns = Append(@, client_index),
                  !.h_stop = NoStop]

\* Head of the inner loop (lines 206-236): leave when the flag is down (the
\* outer loop then ends too and start_monitoring returns), else pick the
\* client of this turn and its checklist and start monitor_username_batch,
\* whose first await is the probe of the first username.
TurnHead(t, mon) ==
    IF ~mon THEN Returned("stopped")
    ELSE LET client_index == t.active_client_indices[t.current_index + 1]
             usernames_to_check == ChecklistOf(t, client_index)
         IN  [t EXCEPT !.client_index = client_index,
                       !.usernames_to_check = usernames_to_check,
                       !.available_usernames = <<>>,
                       !.cb = 0,
                       !.pos = IF usernames_to_check = <<>> THEN 0 ELSE 1,
                       !.pc = IF usernames_to_check = <<>> THEN "empty_turn" ELSE "probe",
                       !.h_round_turns = Append(@, client_index),
                       !.h_stop = NoStop,
                       !.h_epoch_probes =
                           IF usernames_to_check = <<>> THEN @
                           ELSE @ \cup {<<t.round_counter, client_index, usernames_to_check[1]>>}]

\* Head of the outer loop (lines 156-204): one epoch is set up.
EpochHead(t, mon, db) ==
    IF ~mon THEN Returned("stopped")
    ELSE LET usernames == db
             username_chunks == distribute_usernames(usernames, t.client_count)
             active_client_indices ==
                 SelectSeq([i \in 1..t.client_count |-> i - 1],
                           LAMBDA i : username_chunks[i + 1] # <<>>)
             t1 == [t EXCEPT !.usernames = usernames,
                             !.username_chunks = <<>>,
                             !.active_client_indices = <<>>,
                             !.current_index = 0,
                             !.round_counter = 0,
                             !.client_index = 0,
                             !.usernames_to_check = <<>>,
                             !.pos = 0,
                             !.available_usernames = <<>>,
                             !.cb = 0,
                             !.h_epoch_turns = 0,
                             !.h_round_turns = <<>>,
                             !.h_epoch_probes = {}]
         IN  IF usernames = <<>> THEN [t1 EXCEPT !.pc = "backoff"]
             ELSE IF active_client_indices = <<>> THEN [t1 EXCEPT !.pc = "backoff"]
             ELSE TurnHead([t1 EXCEPT !.username_chunks = username_chunks,
                                      !.active_client_indices = active_client_indices],
                           mon)

\* An end of round that ends the epoch only when a username of the snapshot
\* has left the store.
RoundEndSeesOnlyRemovals(t, mon, db) ==
    IF ~(Range(t.usernames) \subseteq Range(db)) THEN EpochHead(t, mon, db)
    ELSE TurnHead(t, mon)

\* An end of round that goes on with the epoch whatever the store holds.
RoundEndKeepsEpoch(t, mon, db) ==
    TurnHead(t, mon)

\* The end-of-round re-read (lines 256-260): a changed list ends the epoch.
RoundEnd(t, mon, db) ==
    LET new_usernames == db
    IN  IF new_usernames # t.usernames THEN EpochHead(t, mon, db)
        ELSE TurnHead(t, mon)

\* A cursor that counts a round at every turn, not only when it wraps.
AfterTurnCountsEveryTurn(t, mon, db) ==
    LET t1 == [t EXCEPT !.current_index = (@ + 1) % Len(t.active_client_indices),
                        !.round_counter = @ + 1,
                        !.h_epoch_turns = @ + 1,
                        !.h_last_dropped = SubSeq(t.available_usernames, t.cb + 1,
                                                  Len(t.available_usernames))]
    IN  IF t1.current_index # 0 THEN TurnHead(t1, mon)
        ELSE LET t2 == [t1 EXCEPT !.h_round_turns = <<>>]
             IN  IF t2.pair_delay > 0 /\ mon THEN [t2 EXCEPT !.pc = "pair_delay"]
                 ELSE RoundEnd(t2, mon, db)

\* After a turn (lines 246-260): the cursor advances; when it wraps a round
\* is counted, pair_delay is slept if positive and the flag is up, and the
\* username list is read again.
AfterTurn(t, mon, db) ==
    LET t1 == [t EXCEPT !.current_index = (@ + 1) % Len(t.active_client_indices),
                        !.h_epoch_turns = @ + 1,
                        !.h_last_dropped = SubSeq(t.available_usernames, t.cb + 1,
                                                  Len(t.available_usernames))]
    IN  IF t1.current_index # 0 THEN TurnHead(t1, mon)
        ELSE LET t2 == [t1 EXCEPT !.round_counter = @ + 1, !.h_round_turns = <<>>]
             IN  IF t2.pair_delay > 0 /\ mon THEN [t2 EXCEPT !.pc = "pair_delay"]
                 ELSE RoundEnd(t2, mon, db)

\* for username in results: await found_callback(username) (lines 239-241).
CallbackNext(t, mon, db) ==
    IF t.cb < Len(t.available_usernames)
    THEN [t EXCEPT !.cb = @ + 1, !.pc = "callback"]
    ELSE AfterTurn(t, mon, db)

\* for username in usernames (line 94): the next probe, or the batch returns
\* its available_usernames and the callbacks follow.
BatchNext(t, mon, db) ==
    IF t.pos < Len(t.usernames_to_check)
    THEN [t EXCEPT !.pos = @ + 1,
                   !.pc = "probe",
                   !.h_epoch_probes =
                       @ \cup {<<t.round_counter, t.client_index, t.usernames_to_check[t.pos + 1]>>}]
    ELSE CallbackNext(t, mon, db)

\* After check_username_availability returned (lines 96-107): the username is
\* kept if available, its last_checked is updated, check_interval is slept if
\* positive.
AfterCheck(t, available, mon, db) ==
    LET t1 == IF available
              THEN [t EXCEPT !.available_usernames = Append(@, t.usernames_to_check[t.pos])]
              ELSE t
    IN  IF t1.check_interval > 0 THEN [t1 EXCEPT !.pc = "check_interval"]
        ELSE BatchNext(t1, mon, db)

\* round_counter is followed up to MaxRounds.
Bounded(t) == t.round_counter <= MaxRounds

\* The lowest free coroutine slot (coroutines are interchangeable).
FreeSlot(l) == task[l].pc = "none" /\ \A k \in 1..(l - 1) : task[k].pc # "none"

\* The decimal digits, and int(value) of a stored string (lines 150-151):
\* the number a string of digits writes, a ValueError for anything else.
Digits == <<"0", "1", "2", "3", "4", "5", "6", "7", "8", "9">>

DigitValue(c) == (CHOOSE d \in 1..10 : Digits[d] = c) - 1

RECURSIVE DecimalValue(_)
DecimalValue(s) ==
    IF s = <<>> THEN 0
    ELSE 10 * DecimalValue(SubSeq(s, 1, Len(s) - 1)) + DigitValue(s[Len(s)])

int(s) ==
    IF s # <<>> /\ \A i \in 1..Len(s) : s[i] \in Range(Digits)
    THEN [ok |-> TRUE, value |-> DecimalValue(s)]
    ELSE [ok |-> FALSE, value |-> 0]

\* db.get_config(key, default) (src/database.py lines 241-248) on a
\* config.json that holds both keys.
get_config(config, key) == config[key]

\* start_monitoring(clients, found_callback) (lines 115-156).
StartMonitoring(l) ==
    /\ FreeSlot(l)
    /\ IF monitoring
       THEN UNCHANGED <<monitoring, task>>
       ELSE /\ monitoring' = TRUE
            /\ LET check_interval == int(get_config(db_config, "check_interval"))
                   pair_delay == int(get_config(db_config, "pair_delay"))
               IN  IF clients = 0
                   THEN task' = [task EXCEPT ![l] = Returned("no_clients")]
                   ELSE IF ~check_interval.ok \/ ~pair_delay.ok
                   THEN task' = [task EXCEPT ![l] = Returned("ValueError")]
                   ELSE task' = [k \in Tasks |->
                            IF k = l
                            THEN EpochHead([NoTask EXCEPT !.client_count = clients,
                                                          !.check_interval = check_interval.value,
                                                          !.pair_delay = pair_delay.value],
                                           TRUE, db_usernames)
                            ELSE [task[k] EXCEPT !.h_stop = NoStop]]
    /\ UNCHANGED <<db_usernames, db_last_checked, db_config, clients, restVars>>

\* stop_monitoring() (lines 266-269).
StopMonitoring ==
    /\ monitoring' = FALSE
    /\ task' = [l \in Tasks |->
                  IF InLoop(task[l])
                  THEN [task[l] EXCEPT !.h_stop =
                           [pc |-> task[l].pc,
                            pos |-> IF task[l].pc = "probe" THEN task[l].pos ELSE 0,
                            cb |-> IF task[l].pc = "callback" THEN task[l].cb ELSE 0]]
                  ELSE task[l]]
    /\ UNCHANGED <<db_usernames, db_last_checked, db_config, clients, restVars>>

\* The store without its update of last_checked.
UpdateSkipped(db, last_checked, username) == last_checked

\* db.update_username_check(username) (src/database.py lines 217-230): the
\* entry of the username gets last_checked = now, the latest timestamp of the
\* file; with no such entry the file is saved as it was read.
update_username_check(db, last_checked, username) ==
    IF username \in Range(db)
    THEN Append(SelectSeq(last_checked, LAMBDA u : u # username), username)
    ELSE last_checked

\* client.get_entity completes with an outcome (lines 22-46, then 96-111).
ProbeReturn(l, outcome, seconds) ==
    /\ task[l].pc = "probe"
    /\ LET t == IF outcome = "flood"
                THEN [task[l] EXCEPT !.pc = "flood_wait", !.seconds = seconds,
                                     !.h_owed = seconds]
                ELSE AfterCheck(task[l], check_username_availability(outcome),
                                monitoring, db_usernames)
       IN  /\ Bounded(t)
           /\ task' = [task EXCEPT ![l] = t]
    /\ db_last_checked' =
          IF outcome = "flood" THEN db_last_checked
          ELSE update_username_check(db_usernames, db_last_checked,
                                     task[l].usernames_to_check[task[l].pos])
    /\ UNCHANGED <<monitoring, db_usernames, db_config, clients, restVars>>

\* A sleep that is one second long whatever the FloodWaitError asked for.
FloodSleptOneSecond(t) ==
    [t EXCEPT !.seconds = 0, !.h_owed = IF @ > 1 THEN @ - 1 ELSE 0]

\* await asyncio.sleep(e.seconds) is over (line 30): e.seconds have passed.
FloodSlept(t) ==
    [t EXCEPT !.seconds = 0, !.h_owed = IF @ > t.seconds THEN @ - t.seconds ELSE 0]

\* The sleep after a FloodWaitError ends: the check returns False (lines 30-31).
FloodWake(l) ==
    /\ task[l].pc = "flood_wait"
    /\ LET t == AfterCheck(FloodSlept(task[l]), FALSE, monitoring, db_usernames)
       IN  /\ Bounded(t)
           /\ task' = [task EXCEPT ![l] = t]
    /\ db_last_checked' =
          update_username_check(db_usernames, db_last_checked,
                                task[l].usernames_to_check[task[l].pos])
    /\ UNCHANGED <<monitoring, db_usernames, db_config, clients, restVars>>

\* asyncio.sleep(check_interval) ends (line 107).
IntervalWake(l) ==
    /\ task[l].pc = "check_interval"
    /\ LET t == BatchNext(task[l], monitoring, db_usernames)
       IN  /\ Bounded(t)
           /\ task' = [task EXCEPT ![l] = t]
    /\ UNCHANGED <<monitoring, db_usernames, db_last_checked, db_config, clients, restVars>>

\* db.remove_username(username) (src/database.py lines 188-206).
remove_username(db, username) == SelectSeq(db, LAMBDA u : u # username)

\* db.add_username(username) (src/database.py lines 159-186).
add_username(db, username) ==
    IF username \in Range(db) THEN db ELSE Append(db, username)

\* found_callback(username) completes (on_username_found, src/userbot.py
\* lines 315-334): the username is removed from the store when the channel
\* was created, and the notification that follows may raise.  An exception
\* is caught at line 243 and ends the turn.
CallbackReturn(l, claimed, raised) ==
    /\ task[l].pc = "callback"
    /\ LET username == task[l].available_usernames[task[l].cb]
           db == IF claimed THEN remove_username(db_usernames, username) ELSE db_usernames
           t == IF raised THEN AfterTurn(task[l], monitoring, db)
                ELSE CallbackNext(task[l], monitoring, db)
       IN  /\ Bounded(t)
           /\ db_usernames' = db
           /\ db_last_checked' = SelectSeq(db_last_checked, LAMBDA u : u \in Range(db))
           /\ task' = [task EXCEPT ![l] = t]
    /\ UNCHANGED <<monitoring, db_config, clients, restVars>>

\* asyncio.sleep(pair_delay) ends (lines 254-260).
PairWake(l) ==
    /\ task[l].pc = "pair_delay"
    /\ task' = [task EXCEPT ![l] = RoundEnd(task[l], monitoring, db_usernames)]
    /\ UNCHANGED <<monitoring, db_usernames, db_last_checked, db_config, clients, restVars>>

\* asyncio.sleep(30) ends and the outer loop continues (lines 163-164, 189-190).
BackoffWake(l) ==
    /\ task[l].pc = "backoff"
    /\ task' = [task EXCEPT ![l] = EpochHead(task[l], monitoring, db_usernames)]
    /\ UNCHANGED <<monitoring, db_usernames, db_last_checked, db_config, clients, restVars>>

\* .addusername (src/userbot.py lines 147-154).
AddUsername(username) ==
    /\ username \notin Range(db_usernames)
    /\ Len(db_usernames) < MaxStore
    /\ db_usernames' = add_username(db_usernames, username)
    /\ UNCHANGED <<monitoring, db_last_checked, db_config, clients, task, restVars>>

\* .delusername (src/userbot.py lines 156-163).
RemoveUsername(username) ==
    /\ username \in Range(db_usernames)
    /\ db_usernames' = remove_username(db_usernames, username)
    /\ db_last_checked' = SelectSeq(db_last_checked, LAMBDA u : u # username)
    /\ UNCHANGED <<monitoring, db_config, clients, task, restVars>>

\* config.json as init_json_files writes it (the defaults "30" and "60"),
\* one with no sleeps, and one whose check_interval is not a number.
ConfigValues ==
    {[check_interval |-> <<"3", "0">>, pair_delay |-> <<"6", "0">>],
     [check_interval |-> <<"0">>, pair_delay |-> <<"0">>],
     [check_interval |-> <<"a", "b", "c">>, pair_delay |-> <<"6", "0">>]}

StoreLists == {s \in UniqueLists(StorePool, MaxStore) : NoDuplicates(s)}

SchedInit ==
    /\ monitoring = FALSE
    /\ db_usernames \in StoreLists
    /\ db_last_checked = <<>>
    /\ db_config \in ConfigValues
    /\ clients \in 0..MaxClients
    /\ task = [l \in Tasks |-> NoTask]

\* No monitoring: nothing started, an empty store, the default configuration.
SchedIdle ==
    /\ monitoring = FALSE
    /\ db_usernames = <<>>
    /\ db_last_checked = <<>>
    /\ db_config = [check_interval |-> <<"3", "0">>, pair_delay |-> <<"6", "0">>]
    /\ clients = 0
    /\ task = [l \in Tasks |-> NoTask]

ProbeIdle ==
    /\ p_exc = NoException
    /\ p_pc = "returned"
    /\ p_value = FALSE

\* The phones of the accounts.
Phones == 1..MaxPhones

\* What a request to Telegram does: it succeeds or raises; a FloodWaitError
\* carries e.seconds.
NoError == [kind |-> "ok", seconds |-> 0]

NoResult == [success |-> FALSE, message |-> [kind |-> "none", seconds |-> 0, phone |-> 0],
             link |-> "none"]

ClaimIdle ==
    /\ c_clients = <<>>
    /\ c_at = 0
    /\ c_pc = "returned"
    /\ c_error = NoError
    /\ c_channel = [phone \in Phones |-> "none"]
    /\ c_attempts = <<>>
    /\ c_result = NoResult

NoCall == [username |-> <<>>, readable |-> TRUE, writable |-> TRUE]

StoreIdle == s_call = NoCall

FoundIdle ==
    /\ f_username = <<>>
    /\ f_pc = "none"
    /\ db_sniped = <<>>

DistIdle ==
    /\ d_usernames = <<>>
    /\ d_client_count = 0
    /\ d_chunks = <<>>
    /\ d_returned = TRUE

Init == SchedInit /\ DistIdle /\ ProbeIdle /\ ClaimIdle /\ FoundIdle /\ StoreIdle

\* One start_monitoring coroutine (slot 1) and every command.
Next ==
    \/ StartMonitoring(1)
    \/ StopMonitoring
    \/ \E outcome \in OracleOutcomes : \E seconds \in FloodSeconds(outcome) :
           ProbeReturn(1, outcome, seconds)
    \/ FloodWake(1)
    \/ IntervalWake(1)
    \/ \E claimed \in BOOLEAN, raised \in BOOLEAN : CallbackReturn(1, claimed, raised)
    \/ PairWake(1)
    \/ BackoffWake(1)
    \/ \E username \in StorePool : AddUsername(username)
    \/ \E username \in StorePool : RemoveUsername(username)

Spec == Init /\ [][Next]_vars

\* The scheduler alone with start and stop, no command editing the store
\* (its usernames were added in ascending order), when every await of the
\* coroutine completes: the probe in flight returns, the sleeps end, the
\* found-callback settles.
LiveInit ==
    /\ Init
    /\ db_usernames = sorted(db_usernames)

LiveNext ==
    \/ StartMonitoring(1)
    \/ StopMonitoring
    \/ \E outcome \in OracleOutcomes : \E seconds \in FloodSeconds(outcome) :
           ProbeReturn(1, outcome, seconds)
    \/ FloodWake(1)
    \/ IntervalWake(1)
    \/ \E claimed \in BOOLEAN, raised \in BOOLEAN : CallbackReturn(1, claimed, raised)
    \/ PairWake(1)
    \/ BackoffWake(1)

Fairness ==
    /\ WF_vars(\E outcome \in OracleOutcomes : \E seconds \in FloodSeconds(outcome) :
                   ProbeReturn(1, outcome, seconds))
    /\ WF_vars(FloodWake(1))
    /\ WF_vars(IntervalWake(1))
    /\ WF_vars(\E claimed \in BOOLEAN, raised \in BOOLEAN : CallbackReturn(1, claimed, raised))
    /\ WF_vars(PairWake(1))
    /\ WF_vars(BackoffWake(1))

SpecLive == LiveInit /\ [][LiveNext]_vars /\ Fairness

\* The scheduler never stopped while .addusername adds usernames to the store
\* (a successful claim removes one), with every await completing.
AddNext ==
    \/ StartMonitoring(1)
    \/ \E outcome \in OracleOutcomes : \E seconds \in FloodSeconds(outcome) :
           ProbeReturn(1, outcome, seconds)
    \/ FloodWake(1)
    \/ IntervalWake(1)
    \/ \E claimed \in BOOLEAN, raised \in BOOLEAN : CallbackReturn(1, claimed, raised)
    \/ PairWake(1)
    \/ BackoffWake(1)
    \/ \E username \in StorePool : AddUsername(username)

\* At least one client, and at most as many as the store holds usernames: one
\* client has the surplus-usernames regime, more have the surplus-clients one.
AddInit ==
    /\ LiveInit
    /\ clients \in 1..MaxStore

SpecAdd == AddInit /\ [][AddNext]_vars /\ Fairness

\* MIN_CHECK_INTERVAL, MAX_CHECK_INTERVAL, MIN_PAIR_DELAY, MAX_PAIR_DELAY
\* (src/config.py lines 25-28).
MIN_CHECK_INTERVAL == 5
MAX_CHECK_INTERVAL == 300
MIN_PAIR_DELAY == 10
MAX_PAIR_DELAY == 600

\* str(n) of a natural number: its decimal digits.
RECURSIVE str(_)
str(n) ==
    IF n < 10 THEN <<Digits[n + 1]>>
    ELSE Append(str(n \div 10), Digits[(n % 10) + 1])

\* .setime <digits> (src/userbot.py lines 179-188).
handle_set_time(digits) ==
    /\ LET interval == int(digits).value
       IN  IF interval < MIN_CHECK_INTERVAL \/ interval > MAX_CHECK_INTERVAL
           THEN db_config' = db_config
           ELSE db_config' = [db_config EXCEPT !.check_interval = str(interval)]
    /\ UNCHANGED <<monitoring, db_usernames, db_last_checked, clients, task, restVars>>

\* .coppia <digits> (src/userbot.py lines 190-199).
handle_set_pair_delay(digits) ==
    /\ LET delay == int(digits).value
       IN  IF delay < MIN_PAIR_DELAY \/ delay > MAX_PAIR_DELAY
           THEN db_config' = db_config
           ELSE db_config' = [db_config EXCEPT !.pair_delay = str(delay)]
    /\ UNCHANGED <<monitoring, db_usernames, db_last_checked, clients, task, restVars>>

\* An account joins AccountManager.clients (verify_code,
\* src/account_manager.py line 67).
verify_code ==
    /\ clients < MaxClients
    /\ clients' = clients + 1
    /\ UNCHANGED <<monitoring, db_usernames, db_last_checked, db_config, task, restVars>>

\* .delvoip <phone> (src/userbot.py lines 112-145): the account is
\* disconnected and leaves AccountManager.clients.
handle_remove_account ==
    /\ clients > 0
    /\ clients' = clients - 1
    /\ UNCHANGED <<monitoring, db_usernames, db_last_checked, db_config, task, restVars>>

\* What the user types after .setime and after .coppia.
SetTimeInputs == {<<"4">>, <<"5">>, <<"0", "3", "0">>}

SetPairDelayInputs == {<<"9">>, <<"1", "0">>, <<"6", "0">>}

\* One coroutine, never stopped, whose probes all find the username taken,
\* while usernames and accounts come and go and the configuration is edited.
EnvInit ==
    /\ Init
    /\ db_config = [check_interval |-> <<"3", "0">>, pair_delay |-> <<"6", "0">>]

EnvNext ==
    \/ StartMonitoring(1)
    \/ ProbeReturn(1, "entity", 0)
    \/ IntervalWake(1)
    \/ PairWake(1)
    \/ BackoffWake(1)
    \/ \E username \in StorePool : AddUsername(username)
    \/ \E username \in StorePool : RemoveUsername(username)
    \/ \E digits \in SetTimeInputs : handle_set_time(digits)
    \/ \E digits \in SetPairDelayInputs : handle_set_pair_delay(digits)
    \/ verify_code
    \/ handle_remove_account

SpecEnv == EnvInit /\ [][EnvNext]_vars

\* Several coroutines at once, with the default configuration, one client and
\* a store no command edits.
RaceInit ==
    /\ Init
    /\ clients = 1
    /\ db_config = [check_interval |-> <<"3", "0">>, pair_delay |-> <<"6", "0">>]

RaceNext ==
    \/ \E l \in Tasks : StartMonitoring(l)
    \/ StopMonitoring
    \/ \E l \in Tasks, outcome \in OracleOutcomes : \E seconds \in FloodSeconds(outcome) :
           ProbeReturn(l, outcome, seconds)
    \/ \E l \in Tasks : FloodWake(l)
    \/ \E l \in Tasks : IntervalWake(l)
    \/ \E l \in Tasks, raised \in BOOLEAN : CallbackReturn(l, FALSE, raised)
    \/ \E l \in Tasks : PairWake(l)
    \/ \E l \in Tasks : BackoffWake(l)

SpecRace == RaceInit /\ [][RaceNext]_vars

DistInputs == {s \in UniqueLists(UsernamePool, MaxNames) : NoDuplicates(s)}

DistInit ==
    /\ d_usernames \in DistInputs
    /\ d_client_count \in 0..MaxDistClients
    /\ d_chunks = <<>>
    /\ d_returned = FALSE
    /\ SchedIdle
    /\ ProbeIdle
    /\ ClaimIdle
    /\ FoundIdle
    /\ StoreIdle

Distribute ==
    /\ ~d_returned
    /\ d_chunks' = distribute_usernames(d_usernames, d_client_count)
    /\ d_returned' = TRUE
    /\ UNCHANGED <<d_usernames, d_client_count, schedVars, probeVars, claimVars, foundVars, storeVars>>

DistNext == Distribute

SpecDist == DistInit /\ [][DistNext]_vars

\* check_username_availability alone, called once on each thing get_entity
\* can do.
ProbeInputs ==
    {[class |-> c, text |-> x, seconds |-> n] :
        c \in ExceptionClasses \ {"FloodWaitError"}, x \in Texts, n \in {0}}
    \cup {[class |-> "FloodWaitError", text |-> x, seconds |-> n] :
             x \in Texts, n \in 1..MaxFloodWait}

ProbeInit ==
    /\ p_exc \in ProbeInputs
    /\ p_pc = "called"
    /\ p_value = FALSE
    /\ SchedIdle
    /\ DistIdle
    /\ ClaimIdle
    /\ FoundIdle
    /\ StoreIdle

\* get_entity completes (lines 24-46): the check returns, or sleeps e.seconds.
CheckReturn ==
    /\ p_pc = "called"
    /\ LET outcome == Outcome(p_exc)
       IN  IF outcome = "flood"
           THEN p_pc' = "sleeping" /\ p_value' = p_value
           ELSE p_pc' = "returned" /\ p_value' = check_username_availability(outcome)
    /\ UNCHANGED <<p_exc, schedVars, distVars, claimVars, foundVars, storeVars>>

\* asyncio.sleep(e.seconds) ends and the check returns False (lines 30-31).
CheckWake ==
    /\ p_pc = "sleeping"
    /\ p_pc' = "returned"
    /\ p_value' = FALSE
    /\ UNCHANGED <<p_exc, schedVars, distVars, claimVars, foundVars, storeVars>>

ProbeNext == CheckReturn \/ CheckWake

SpecProbe == ProbeInit /\ [][ProbeNext]_vars

\* ------------------------------------------- create_channel_with_fallback
\* (src/channel_creator.py).  c_pc names the request create_channel awaits:
\*   "create"          CreateChannelRequest                     (line 25)
\*   "set_username"    UpdateUsernameRequest                    (line 36)
\*   "send_message"    client.send_message                      (line 44)
\*   "delete_occupied" DeleteChannelRequest after the username
\*                     turned out occupied                      (line 55)
\*   "delete_other"    DeleteChannelRequest after another error,
\*                     itself inside try/except: pass           (line 64)
\* A channel is "none" (never made), "created", "named" (it holds the
\* username) or "deleted".
RequestOutcomes ==
    {NoError, [kind |-> "Exception", seconds |-> 0]}
    \cup {[kind |-> "FloodWaitError", seconds |-> n] : n \in 1..MaxFloodWait}

UpdateUsernameOutcomes ==
    RequestOutcomes \cup {[kind |-> "UsernameOccupiedError", seconds |-> 0]}

\* The seconds str(e) names: the text of a FloodWaitError is "A wait of
\* {seconds} seconds is required", no other error text names a wait.
SecondsNamed(e) == IF e.kind = "FloodWaitError" THEN e.seconds ELSE 0

\* The messages create_channel returns (lines 48, 57, 68, 72, 76), as their
\* kind and the wait in seconds their text names (0: none).
MessageCreated == [kind |-> "created", seconds |-> 0]

MessageOccupied == [kind |-> "occupied", seconds |-> 0]

MessageSetUsernameError(e) == [kind |-> "set_username_error", seconds |-> SecondsNamed(e)]

\* A rate-limit message that does not say how long to wait.
MessageFloodWaitWithoutSeconds(e) == [kind |-> "flood_wait", seconds |-> 0]

MessageFloodWait(e) == [kind |-> "flood_wait", seconds |-> e.seconds]

MessageCreateError(e) == [kind |-> "create_error", seconds |-> SecondsNamed(e)]

\* A dispatcher that gives up at the first failed attempt.
FallbackAbortsOnFailure(phones, at, success) ==
    IF success THEN "return_success" ELSE "return_failure"

\* for phone, client in clients.items() (lines 80-94): what follows the
\* return of create_channel for the client at position at.
Fallback(phones, at, success) ==
    IF success THEN "return_success"
    ELSE IF at < Len(phones) THEN "continue"
    ELSE "return_failure"

FallbackFailure ==
    [success |-> FALSE, message |-> [kind |-> "all_failed", seconds |-> 0, phone |-> 0],
     link |-> ""]

\* create_channel returns (success, message) to the loop of lines 80-92.
\* flood and swallowed are kept with the attempt for the record: the wait of
\* a FloodWaitError that ended the attempt or was caught at line 59, and the
\* wait of one that the except: pass of line 65 swallowed.
AttemptDone(success, message, flood, swallowed) ==
    LET phone == c_clients[c_at]
        step == Fallback(c_clients, c_at, success)
    IN  /\ c_attempts' = Append(c_attempts,
                                [phone |-> phone, success |-> success, message |-> message,
                                 flood |-> flood, swallowed |-> swallowed])
        /\ c_error' = NoError
        /\ c_pc' = IF step = "continue" THEN "create" ELSE "returned"
        /\ c_at' = IF step = "continue" THEN c_at + 1 ELSE c_at
        /\ c_result' =
              IF step = "return_success"
              THEN [success |-> TRUE,
                    message |-> [kind |-> "created_using", seconds |-> message.seconds,
                                 phone |-> phone],
                    link |-> "https://t.me/username"]
              ELSE IF step = "return_failure" THEN FallbackFailure
              ELSE c_result

\* create_channel_with_fallback(clients, username) is called (lines 78-80).
FallbackCall ==
    /\ c_pc = "called"
    /\ IF c_clients = <<>>
       THEN c_pc' = "returned" /\ c_at' = c_at /\ c_result' = FallbackFailure
       ELSE c_pc' = "create" /\ c_at' = 1 /\ c_result' = c_result
    /\ UNCHANGED <<c_clients, c_error, c_channel, c_attempts, schedVars, distVars, probeVars, foundVars, storeVars>>

\* CreateChannelRequest completes (lines 25-32, 70-76).
CreateReturn(o) ==
    /\ c_pc = "create"
    /\ IF o.kind = "ok"
       THEN /\ c_channel' = [c_channel EXCEPT ![c_clients[c_at]] = "created"]
            /\ c_pc' = "set_username"
            /\ UNCHANGED <<c_at, c_error, c_attempts, c_result>>
       ELSE /\ c_channel' = c_channel
            /\ IF o.kind = "FloodWaitError"
               THEN AttemptDone(FALSE, MessageFloodWait(o), o.seconds, 0)
               ELSE AttemptDone(FALSE, MessageCreateError(o), 0, 0)
    /\ UNCHANGED <<c_clients, schedVars, distVars, probeVars, foundVars, storeVars>>

\* UpdateUsernameRequest completes (lines 36-41, 50-59).
SetUsernameReturn(o) ==
    /\ c_pc = "set_username"
    /\ IF o.kind = "ok"
       THEN /\ c_channel' = [c_channel EXCEPT ![c_clients[c_at]] = "named"]
            /\ c_pc' = "send_message"
            /\ c_error' = c_error
       ELSE /\ c_channel' = c_channel
            /\ IF o.kind = "UsernameOccupiedError"
               THEN c_pc' = "delete_occupied" /\ c_error' = c_error
               ELSE c_pc' = "delete_other" /\ c_error' = o
    /\ UNCHANGED <<c_clients, c_at, c_attempts, c_result, schedVars, distVars, probeVars, foundVars, storeVars>>

\* client.send_message completes (lines 44-48, 59).
SendMessageReturn(o) ==
    /\ c_pc = "send_message"
    /\ IF o.kind = "ok"
       THEN AttemptDone(TRUE, MessageCreated, 0, 0)
       ELSE /\ c_pc' = "delete_other"
            /\ c_error' = o
            /\ UNCHANGED <<c_at, c_attempts, c_result>>
    /\ UNCHANGED <<c_clients, c_channel, schedVars, distVars, probeVars, foundVars, storeVars>>

\* The DeleteChannelRequest of line 55 completes: its exception is caught by
\* the outer except clauses (lines 70-76) and the channel stays.
DeleteOccupiedReturn(o) ==
    /\ c_pc = "delete_occupied"
    /\ IF o.kind = "ok"
       THEN /\ c_channel' = [c_channel EXCEPT ![c_clients[c_at]] = "deleted"]
            /\ AttemptDone(FALSE, MessageOccupied, 0, 0)
       ELSE /\ c_channel' = c_channel
            /\ IF o.kind = "FloodWaitError"
               THEN AttemptDone(FALSE, MessageFloodWait(o), o.seconds, 0)
               ELSE AttemptDone(FALSE, MessageCreateError(o), 0, 0)
    /\ UNCHANGED <<c_clients, schedVars, distVars, probeVars, foundVars, storeVars>>

\* The DeleteChannelRequest of line 64 completes: its exception is
\* swallowed (lines 65-66) and the channel stays.
DeleteOtherReturn(o) ==
    /\ c_pc = "delete_other"
    /\ c_channel' = IF o.kind = "ok"
                    THEN [c_channel EXCEPT ![c_clients[c_at]] = "deleted"]
                    ELSE c_channel
    /\ AttemptDone(FALSE, MessageSetUsernameError(c_error), SecondsNamed(c_error),
                   SecondsNamed(o))
    /\ UNCHANGED <<c_clients, schedVars, distVars, probeVars, foundVars, storeVars>>

\* The clients argument: phones in any order, none twice (the keys of a dict).
ClaimInit ==
    /\ c_clients \in {x \in UniqueLists(Phones, MaxPhones) : NoDuplicates(x)}
    /\ c_at = 0
    /\ c_pc = "called"
    /\ c_error = NoError
    /\ c_channel = [phone \in Phones |-> "none"]
    /\ c_attempts = <<>>
    /\ c_result = NoResult
    /\ SchedIdle
    /\ DistIdle
    /\ ProbeIdle
    /\ FoundIdle
    /\ StoreIdle

ClaimNext ==
    \/ FallbackCall
    \/ \E o \in RequestOutcomes : CreateReturn(o)
    \/ \E o \in UpdateUsernameOutcomes : SetUsernameReturn(o)
    \/ \E o \in RequestOutcomes : SendMessageReturn(o)
    \/ \E o \in RequestOutcomes : DeleteOccupiedReturn(o)
    \/ \E o \in RequestOutcomes : DeleteOtherReturn(o)

SpecClaim == ClaimInit /\ [][ClaimNext]_vars

\* ------------------------------------------------------ on_username_found
\* (src/userbot.py lines 315-334), run with create_channel_with_fallback.

\* db.add_sniped_username(username, channel_link, account_used)
\* (src/database.py lines 250-268).
add_sniped_username(sniped, username, channel_link, account_used) ==
    Append(sniped, [username |-> username, channel_link |-> channel_link,
                    account_used |-> account_used])

\* message.split("usando ")[1].split(":")[0] if "usando " in message else
\* "Unknown" (line 326): the phone the success message of line 85 names.
AccountUsed(message) ==
    IF message.kind = "created_using" THEN message.phone ELSE 0

\* A callback that clears the username and records it whatever the dispatch
\* returned.
AfterDispatchWhateverResult(result, db, sniped, username) ==
    [usernames |-> remove_username(db, username),
     sniped |-> add_sniped_username(sniped, username, result.link, AccountUsed(result.message))]

\* Lines 322-328: what the store holds after the dispatch returned result.
AfterDispatch(result, db, sniped, username) ==
    IF result.success
    THEN [usernames |-> remove_username(db, username),
          sniped |-> add_sniped_username(sniped, username, result.link,
                                         AccountUsed(result.message))]
    ELSE [usernames |-> db, sniped |-> sniped]

\* found_callback(username) is called by the scheduler (line 241): the
\* callback awaits create_channel_with_fallback(clients, username) (line 320).
FoundCall(username) ==
    /\ f_pc = "none"
    /\ f_username' = username
    /\ f_pc' = "dispatch"
    /\ c_pc' = "called"
    /\ UNCHANGED <<c_clients, c_at, c_error, c_channel, c_attempts, c_result,
                   db_sniped, schedVars, distVars, probeVars, storeVars>>

\* create_channel_with_fallback has returned (lines 320-334): the store is
\* edited on success, then the notification is sent.
FoundDispatched ==
    /\ f_pc = "dispatch"
    /\ c_pc = "returned"
    /\ LET after == AfterDispatch(c_result, db_usernames, db_sniped, f_username)
       IN  /\ db_usernames' = after.usernames
           /\ db_last_checked' = SelectSeq(db_last_checked,
                                           LAMBDA u : u \in Range(after.usernames))
           /\ db_sniped' = after.sniped
    /\ f_pc' = "notify"
    /\ UNCHANGED <<f_username, monitoring, db_config, clients, task,
                   claimVars, distVars, probeVars, storeVars>>

\* main_client.send_message('me', notification) completes or raises (line 334).
NotifyReturn(raised) ==
    /\ f_pc = "notify"
    /\ f_pc' = IF raised THEN "raised" ELSE "returned"
    /\ UNCHANGED <<f_username, db_sniped, schedVars, claimVars, distVars, probeVars, storeVars>>

\* The callback is given the clients start_monitoring_loop read (line 312),
\* in the order the accounts were added, and the store holds "a" and "ab";
\* the username found may have left the store since its probe ("b").
FoundInit ==
    /\ c_clients \in {[i \in 1..n |-> i] : n \in 0..MaxPhones}
    /\ c_at = 0
    /\ c_pc = "returned"
    /\ c_error = NoError
    /\ c_channel = [phone \in Phones |-> "none"]
    /\ c_attempts = <<>>
    /\ c_result = NoResult
    /\ monitoring = TRUE
    /\ db_usernames = << <<1>>, <<1, 2>> >>
    /\ db_last_checked = <<>>
    /\ db_config = [check_interval |-> <<"3", "0">>, pair_delay |-> <<"6", "0">>]
    /\ clients = Len(c_clients)
    /\ task = [l \in Tasks |-> NoTask]
    /\ FoundIdle
    /\ StoreIdle
    /\ DistIdle
    /\ ProbeIdle

FoundNext ==
    \/ \E username \in StorePool : FoundCall(username)
    \/ FoundDispatched
    \/ \E raised \in BOOLEAN : NotifyReturn(raised)
    \/ ClaimNext

SpecFound == FoundInit /\ [][FoundNext]_vars

\* ----------------------------------------------- the store (src/database.py)
\* usernames.json is the pair of db_usernames and db_last_checked.  A read or
\* a write of the file can fail (the file cannot be opened or parsed).

\* self._load_json(self.usernames_file, []) (lines 55-64): the content of the
\* file, or the default [] when reading raised.
load_json(file, readable) ==
    IF readable THEN file ELSE [usernames |-> <<>>, last_checked |-> <<>>]

\* self._save_json(self.usernames_file, data) (lines 66-73): the file after
\* the call; when writing raised the file is as it was (the exception is the
\* caller's to catch).
save_json(file, data, writable) ==
    IF writable THEN data ELSE file

\* get_active_usernames() (lines 208-215).
get_active_usernames(file, readable) ==
    load_json(file, readable).usernames

\* update_username_check(username) on the file (lines 217-230): what was
\* loaded is saved again with the timestamp of the username's entry set.
UpdateCheckOnFile(file, username, readable, writable) ==
    LET usernames == load_json(file, readable)
        data == [usernames |-> usernames.usernames,
                 last_checked |-> update_username_check(usernames.usernames,
                                                        usernames.last_checked, username)]
    IN  save_json(file, data, writable)

\* db.update_username_check(username) is called and returns.
StoreUpdateCheck(username, readable, writable) ==
    /\ LET file == UpdateCheckOnFile([usernames |-> db_usernames,
                                      last_checked |-> db_last_checked],
                                     username, readable, writable)
       IN  /\ db_usernames' = file.usernames
           /\ db_last_checked' = file.last_checked
    /\ s_call' = [username |-> username, readable |-> readable, writable |-> writable]
    /\ UNCHANGED <<monitoring, db_config, clients, task,
                   distVars, probeVars, claimVars, foundVars>>

StoreInit ==
    /\ SchedInit
    /\ clients = 0
    /\ db_config = [check_interval |-> <<"3", "0">>, pair_delay |-> <<"6", "0">>]
    /\ DistIdle
    /\ ProbeIdle
    /\ ClaimIdle
    /\ FoundIdle
    /\ StoreIdle

StoreNext ==
    \/ \E username \in StorePool, readable \in BOOLEAN, writable \in BOOLEAN :
           StoreUpdateCheck(username, readable, writable)
    \/ \E username \in StorePool : AddUsername(username)
    \/ \E username \in StorePool : RemoveUsername(username)

SpecStore == StoreInit /\ [][StoreNext]_vars

\* ------------------------------------------- claims on distribute_usernames
\* 0-based position of x in the ascending order of the set S.
Rank(x, S) == Cardinality({y \in S : StrLess(y, x)})

\* The element of S at 0-based sorted position i.
Ranked(S, i) == CHOOSE x \in S : Rank(x, S) = i

\* Every arrival order of the set S.
RECURSIVE Perms(_)
Perms(S) ==
    IF S = {} THEN {<<>>}
    ELSE UNION {{Append(p, x) : p \in Perms(S \ {x})} : x \in S}

\* C4: with at least as many usernames as clients (and at least one client),
\* the username at sorted position i is in the list of client i mod
\* client_count and in no other list, no list repeats a username and no list
\* holds a username that was not given: the lists partition the input.
C4_RoundRobinPartitions ==
    (d_returned /\ d_client_count > 0 /\ Len(d_usernames) > 0
        /\ Len(d_usernames) >= d_client_count) =>
        /\ Len(d_chunks) = d_client_count
        /\ \A x \in Range(d_usernames) : \A k \in 1..d_client_count :
              (x \in Range(d_chunks[k]))
                 <=> (k - 1 = Rank(x, Range(d_usernames)) % d_client_count)
        /\ \A k \in 1..d_client_count :
              /\ NoDuplicates(d_chunks[k])
              /\ Range(d_chunks[k]) \subseteq Range(d_usernames)

\* [a, b, c, d] over 2 clients gives [[a, c], [b, d]].
C4_Witness ==
    /\ d_returned
    /\ d_usernames = << <<1>>, <<2>>, <<3>>, <<4>> >>
    /\ d_client_count = 2
    /\ d_chunks = << << <<1>>, <<3>> >>, << <<2>>, <<4>> >> >>

\* C5: with more clients than usernames, client k (k < number of usernames)
\* holds exactly the k-th smallest username and every later client holds the
\* full ascending list.
C5_SurplusClients ==
    (d_returned /\ Len(d_usernames) > 0 /\ d_client_count > Len(d_usernames)) =>
        LET S == Range(d_usernames)
            n == Len(d_usernames)
        IN  /\ Len(d_chunks) = d_client_count
            /\ \A k \in 1..n : d_chunks[k] = <<Ranked(S, k - 1)>>
            /\ \A k \in (n + 1)..d_client_count :
                  d_chunks[k] = [i \in 1..n |-> Ranked(S, i - 1)]

\* [ab, d] over 3 clients gives [[ab], [d], [ab, d]].
C5_Witness ==
    /\ d_returned
    /\ d_usernames = << <<1, 2>>, <<4>> >>
    /\ d_client_count = 3
    /\ d_chunks = << << <<1, 2>> >>, << <<4>> >>, << <<1, 2>>, <<4>> >> >>

\* C6: for client_count 0 the result is the empty sequence whatever the
\* usernames; for no usernames it is client_count empty lists.
C6_EmptyInputs ==
    d_returned =>
        /\ (d_client_count = 0 => d_chunks = <<>>)
        /\ (Len(d_usernames) = 0 =>
               /\ Len(d_chunks) = d_client_count
               /\ \A k \in 1..d_client_count : d_chunks[k] = <<>>)

\* No usernames over 3 clients gives three empty lists.
C6_Witness ==
    /\ d_returned
    /\ d_usernames = <<>>
    /\ d_client_count = 3
    /\ d_chunks = << <<>>, <<>>, <<>> >>

\* C7: every arrival order of the same usernames gives, with the same
\* client_count, the lists that the call returned.
C7_ArrivalOrderIndependent ==
    d_returned =>
        \A q \in Perms(Range(d_usernames)) :
            distribute_usernames(q, d_client_count) = d_chunks

\* [b, a, ab] arrives unsorted; over 2 clients it gives [[a, b], [ab]].
C7_Witness ==
    /\ d_returned
    /\ d_usernames = << <<2>>, <<1>>, <<1, 2>> >>
    /\ d_client_count = 2
    /\ d_chunks = << << <<1>>, <<2>> >>, << <<1, 2>> >> >>

\* ---------------------------------------------- claims on the scheduling loop
InTurn == {"probe", "flood_wait", "check_interval", "callback"}
InEpoch == InTurn \cup {"pair_delay"}

\* C1: at most one scheduling loop is executing at any time: never are two
\* start_monitoring coroutines inside the loop while the flag is up (a
\* start_monitoring call made while the flag is up starts nothing).
C1_AtMostOneLoop ==
    \A l1, l2 \in Tasks :
        (monitoring /\ InLoop(task[l1]) /\ InLoop(task[l2])) => l1 = l2

\* C2: after stop_monitoring() is called while a probe of a turn is in
\* flight, no later username of that turn's checklist is probed.
C2_StopHaltsTheTurn ==
    \A l \in Tasks :
        ~ (/\ ~monitoring
           /\ task[l].h_stop.pc = "probe"
           /\ task[l].pc = "probe"
           /\ task[l].pos > task[l].h_stop.pos)

\* C3: once is_monitoring() is false after a stop, the loop does nothing
\* more: it begins no probe and invokes no found-callback that was not
\* already in flight when stop_monitoring() was called.
C3_FlagDownMeansLoopDone ==
    \A l \in Tasks :
        (~monitoring /\ task[l].h_stop # NoStop) =>
            /\ task[l].pc = "probe" =>
                  (task[l].h_stop.pc = "probe" /\ task[l].pos = task[l].h_stop.pos)
            /\ task[l].pc = "callback" =>
                  (task[l].h_stop.pc = "callback" /\ task[l].cb = task[l].h_stop.cb)

\* C8: within an epoch the turns go to the clients of active_client_indices
\* in position order, each once per round, and round_counter is the number of
\* completed rounds: after k finished turns over n active clients the cursor
\* is k mod n, round_counter is k div n, and the clients given a turn in the
\* round in progress are the first (cursor + 1) of active_client_indices.
C8_CursorRoundRobin ==
    \A l \in Tasks :
        LET t == task[l]
            n == Len(t.active_client_indices)
        IN  t.pc \in InEpoch =>
              /\ n > 0
              /\ t.current_index = t.h_epoch_turns % n
              /\ t.round_counter = t.h_epoch_turns \div n
              /\ t.pc = "pair_delay" => t.h_round_turns = <<>>
              /\ t.pc \in InTurn =>
                    /\ t.h_round_turns = SubSeq(t.active_client_indices, 1, t.current_index + 1)
                    /\ t.client_index = t.active_client_indices[t.current_index + 1]

\* The second client's turn of the second round, two clients active.
C8_Witness ==
    \E l \in Tasks :
        /\ task[l].pc = "probe"
        /\ task[l].active_client_indices = <<0, 1>>
        /\ task[l].round_counter = 1
        /\ task[l].current_index = 1
        /\ task[l].h_epoch_turns = 3
        /\ task[l].h_round_turns = <<0, 1>>

\* C9: in an epoch with fewer usernames than clients, the turn of an
\* alternating client (index >= number of usernames) in round r checks
\* exactly usernames[r mod |usernames|]; in every completed round it probed
\* one username, and over any |usernames| consecutive completed rounds it
\* probed every username of the epoch's snapshot.
C9_AlternatingVisitsAll ==
    \A l \in Tasks :
        LET t == task[l]
            n == Len(t.usernames)
            probed(w, r) == {p[3] : p \in {q \in t.h_epoch_probes : q[1] = r /\ q[2] = w}}
        IN  (t.pc \in InEpoch /\ n < t.client_count) =>
              /\ (t.pc \in InTurn /\ t.client_index >= n) =>
                    t.usernames_to_check = <<t.usernames[(t.round_counter % n) + 1]>>
              /\ \A w \in n..(t.client_count - 1) :
                    /\ \A r \in 0..(t.round_counter - 1) : Cardinality(probed(w, r)) = 1
                    /\ \A r \in 0..(t.round_counter - n) :
                          UNION {probed(w, r2) : r2 \in r..(r + n - 1)} = Range(t.usernames)

\* Two usernames, three clients, two rounds completed: the alternating client
\* (index 2) probed b in round 0 and a in round 1.
C9_Witness ==
    \E l \in Tasks :
        /\ task[l].pc \in InEpoch
        /\ task[l].usernames = << <<2>>, <<1>> >>
        /\ task[l].client_count = 3
        /\ task[l].round_counter = 2
        /\ <<0, 2, <<2>> >> \in task[l].h_epoch_probes
        /\ <<1, 2, <<1>> >> \in task[l].h_epoch_probes

\* C10: every username a probe of a turn reported available had the
\* found-callback invoked with it by the end of that turn.
C10_CallbackForEveryFound ==
    \A l \in Tasks : task[l].h_last_dropped = <<>>

\* The coroutine is about to continue the turn it was in: same epoch, same
\* count of finished turns (a new epoch starts only on a changed username
\* list, lines 258-260).
SameTurn(t, t2) ==
    /\ t2.pc \in InTurn
    /\ t2.usernames = t.usernames
    /\ t2.h_epoch_turns = t.h_epoch_turns

\* C12: after a FloodWaitError of n seconds a coroutine has a probe in flight
\* again only when the n seconds have been slept (nothing is owed); when
\* the sleep ends the rate-limited username is not among the found ones of
\* the turn (the list of found usernames is as it was, and a turn that ends
\* there had found nothing, so it invokes no callback), and the turn goes on
\* past that username: its probe is not issued again.
C12_FloodWaitIsSlept ==
    [][\A l \in Tasks :
          LET t == task[l]
              t2 == task'[l]
          IN  /\ t2.pc = "probe" => t2.h_owed = 0
              /\ (t.pc = "flood_wait" /\ t2.pc # "flood_wait") =>
                    /\ t.usernames_to_check[t.pos] \notin Range(t.available_usernames)
                    /\ IF SameTurn(t, t2)
                       THEN /\ t2.available_usernames = t.available_usernames
                            /\ ~(t2.pc = "probe" /\ t2.pos = t.pos)
                       ELSE t.available_usernames = <<>>]_vars

\* A rate limit of MaxFloodWait seconds on the first username of a checklist
\* of two, being slept.
C12_Witness ==
    /\ task[1].pc = "flood_wait"
    /\ task[1].seconds = MaxFloodWait
    /\ task[1].h_owed = MaxFloodWait
    /\ task[1].pos = 1
    /\ Len(task[1].usernames_to_check) = 2

\* C16: a start_monitoring call never ends for want of connected clients,
\* and a coroutine whose snapshot of the usernames is empty probes nothing:
\* it sleeps the 30 s backoff and snapshots again.
C16_EmptySetsBackOff ==
    \A l \in Tasks :
        /\ task[l].h_exit # "no_clients"
        /\ (InLoop(task[l]) /\ task[l].usernames = <<>>) => task[l].pc = "backoff"

\* C17: no start_monitoring call is ended by an error.
C17_NoErrorEndsTheLoop ==
    \A l \in Tasks : task[l].h_exit # "ValueError"

\* With this step coroutine t (t2 after the step) has set up a new epoch: the
\* call has just begun, the backoff is over and there is work, or the
\* snapshot of the usernames was replaced.
EpochStarts(t, t2) ==
    /\ InLoop(t2)
    /\ \/ t.pc = "none"
       \/ t.pc = "backoff" /\ t2.pc # "backoff"
       \/ t.pc \in InEpoch /\ t2.usernames # t.usernames

\* With this step coroutine t (t2 after the step) has read the usernames
\* again at the end of a round and stays in its epoch.
EpochContinues(t, t2) ==
    /\ t2.pc \in InTurn
    /\ t2.usernames = t.usernames
    /\ t.pc = "pair_delay" \/ t2.round_counter = t.round_counter + 1

\* C18: an epoch is ended by the re-read at the end of a round only when the
\* usernames read differ as a set from the snapshot of the epoch, and it
\* goes on only when they are the same set.
C18_EpochEndsOnSetChange ==
    [][\A l \in Tasks :
          LET t == task[l]
              t2 == task'[l]
          IN  /\ (t.pc \in InEpoch /\ EpochStarts(t, t2)) =>
                    Range(t2.usernames) # Range(t.usernames)
              /\ EpochContinues(t, t2) => Range(db_usernames') = Range(t.usernames)]_vars

\* C19: the clients an epoch partitions among are the connected clients at
\* the time the epoch is set up.
C19_PoolReadAtEpochStart ==
    [][\A l \in Tasks :
          EpochStarts(task[l], task'[l]) => task'[l].client_count = clients']_vars

\* C20: the check_interval and pair_delay an epoch sleeps are the values
\* config.json holds at the time the epoch is set up.
C20_ConfigReadAtEpochStart ==
    [][\A l \in Tasks :
          EpochStarts(task[l], task'[l]) =>
              /\ task'[l].check_interval = int(get_config(db_config', "check_interval")).value
              /\ task'[l].pair_delay = int(get_config(db_config', "pair_delay")).value]_vars

\* C21: no probe is in flight while a username found earlier in the same
\* turn still waits for its found-callback.
C21_CallbackBeforeNextProbe ==
    \A l \in Tasks : task[l].pc = "probe" => task[l].available_usernames = <<>>

\* C22: while found usernames of the turn are still to be handed to the
\* found-callback, the completion of one callback, raised or not, is
\* followed by the callback of the next one.
C22_CallbackFailureDropsNothing ==
    [][\A l \in Tasks :
          LET t == task[l]
              t2 == task'[l]
          IN  (t.pc = "callback" /\ t.cb < Len(t.available_usernames)) =>
                  /\ t2.pc = "callback"
                  /\ t2.cb \in {t.cb, t.cb + 1}
                  /\ t2.available_usernames = t.available_usernames]_vars

\* C23: check_interval is slept only when it is positive and only between
\* two usernames of the checklist, never after the last one.
C23_IntervalOnlyBetweenChecks ==
    \A l \in Tasks :
        task[l].pc = "check_interval" =>
            /\ task[l].check_interval > 0
            /\ task[l].pos < Len(task[l].usernames_to_check)

\* C26: at most one coroutine is inside a turn (probing, sleeping between
\* checks or in a found-callback), so at most one probe is in flight and no
\* two turns or epochs overlap.
C26_OneTurnAtATime ==
    Cardinality({l \in Tasks : task[l].pc \in InTurn}) <= 1

\* C29: the flag is up only while a start_monitoring coroutine is in its
\* loop.
C29_FlagUpOnlyWhileLooping ==
    monitoring => \E l \in Tasks : InLoop(task[l])

\* With this step the probe coroutine t had in flight has completed, with
\* any outcome (the sleep of a rate limit is part of the probe, line 30), and
\* t2 is the coroutine at its next await.
ProbeCompletes(t, t2) ==
    \/ t.pc = "flood_wait" /\ t2.pc # "flood_wait"
    \/ /\ t.pc = "probe"
       /\ t2.pc # "flood_wait"
       /\ \/ t2.pc # "probe"
          \/ t2.pos # t.pos
          \/ t2.h_epoch_turns # t.h_epoch_turns
          \/ t2.usernames # t.usernames

C25_ChecklistFollowsRegime ==
    \A l \in Tasks :
        LET t == task[l]
            n == Len(t.usernames)
            probes(w) == {q \in t.h_epoch_probes : q[2] = w}
            probed(w, r) == {q[3] : q \in {p \in probes(w) : p[1] = r}}
        IN  t.pc \in InEpoch =>
              /\ (t.pc \in InTurn /\ n >= t.client_count) =>
                    t.usernames_to_check = t.username_chunks[t.client_index + 1]
              /\ n >= t.client_count =>
                    \A w \in 0..(t.client_count - 1) : \A r \in 0..(t.round_counter - 1) :
                        probed(w, r) = Range(t.username_chunks[w + 1])
              /\ (t.pc \in InTurn /\ n < t.client_count /\ t.client_index < n) =>
                    t.usernames_to_check = <<Ranked(Range(t.usernames), t.client_index)>>
              /\ n < t.client_count =>
                    \A w \in 0..(n - 1) : \A q \in probes(w) :
                        q[3] = Ranked(Range(t.usernames), w)

\* Two usernames stored as [b, a] and three clients: the second primary
\* client is in its turn of the second round and checks b again.
C25_Witness ==
    \E l \in Tasks :
        /\ task[l].pc = "probe"
        /\ task[l].usernames = << <<2>>, <<1>> >>
        /\ task[l].client_count = 3
        /\ task[l].client_index = 1
        /\ task[l].round_counter = 1
        /\ task[l].usernames_to_check = << <<2>> >>
        /\ <<0, 1, <<2>> >> \in task[l].h_epoch_probes

\* The usernames that appear in the chunk of at least one client.
Assigned(t) ==
    UNION {Range(t.username_chunks[k]) : k \in 1..Len(t.username_chunks)}

\* C28 as stated: inside an epoch every username of the store is in the
\* chunk of at least one client.
C28_StoreAssignedInEpoch ==
    \A l \in Tasks :
        task[l].pc \in InEpoch => Range(db_usernames) \subseteq Assigned(task[l])

\* C28: inside an epoch every username of the list read at the start of the
\* epoch is in the chunk of at least one client, and the chunks hold nothing
\* else; a username of the store that is in no chunk is one the snapshot of
\* the epoch does not hold.
C28_SnapshotAssignedInEpoch ==
    \A l \in Tasks :
        task[l].pc \in InEpoch =>
            /\ Range(task[l].usernames) # {}
            /\ Assigned(task[l]) = Range(task[l].usernames)
            /\ \A u \in Range(db_usernames) \ Assigned(task[l]) :
                  u \notin Range(task[l].usernames)

\* A username was added to the store while a turn of the epoch is running:
\* it is in no chunk, and the usernames of the snapshot are all still stored.
C28_Witness ==
    \E l \in Tasks :
        /\ task[l].pc \in InTurn
        /\ Range(task[l].usernames) \subseteq Range(db_usernames)
        /\ Range(db_usernames) \ Assigned(task[l]) # {}

\* C30: whenever the flag is down, the coroutine that is in the loop gets
\* out of it (start_monitoring returns) if its awaits complete; a coroutine
\* that is out of the loop enters it again only by a start, which raises the
\* flag, and while no coroutine is in the loop no probe completes and no
\* last_checked is written.
C30_StopEndsTheLoop ==
    /\ ~monitoring ~> (\A l \in Tasks : ~InLoop(task[l]))
    /\ [][\A l \in Tasks :
            ~InLoop(task[l]) =>
                /\ InLoop(task'[l]) => (~monitoring /\ monitoring')
                /\ (\A k \in Tasks : ~InLoop(task[k])) =>
                      Range(db_last_checked') \subseteq Range(db_last_checked)]_vars

\* The loop has ended because of a stop, and nothing has started since.
C30_Witness ==
    /\ ~monitoring
    /\ \E l \in Tasks : ~InLoop(task[l]) /\ task[l].h_exit = "stopped"

\* C34: while a coroutine is in an epoch (its snapshot is not empty and it
\* has at least one client) every client has a chunk that is not empty and
\* active_client_indices is 0..client_count-1 in order; the 30 s back-off is
\* slept only on an empty snapshot, never because no client has usernames.
C34_EveryClientActive ==
    \A l \in Tasks :
        LET t == task[l]
        IN  /\ t.pc \in InEpoch =>
                  /\ t.client_count >= 1
                  /\ Len(t.username_chunks) = t.client_count
                  /\ \A k \in 1..t.client_count : t.username_chunks[k] # <<>>
                  /\ t.active_client_indices = [i \in 1..t.client_count |-> i - 1]
            /\ t.pc = "backoff" => t.usernames = <<>>

\* One username and three clients: the second alternating client has its
\* turn.
C34_Witness ==
    \E l \in Tasks :
        /\ task[l].pc = "probe"
        /\ Len(task[l].usernames) = 1
        /\ task[l].client_count = 3
        /\ task[l].client_index = 2
        /\ task[l].active_client_indices = <<0, 1, 2>>

\* C32: every round of a coroutine starts from the usernames the store holds
\* at that step (read at the start of the epoch, or found equal to the
\* snapshot by the re-read at the end of the round before), and every
\* checklist and every probe of the epoch is of a username of that snapshot.
\* So a username removed from the store can be probed until the round in
\* progress ends, and from the next round on it is in no checklist unless
\* the store holds it again.
C32_RemovedLeavesAtRoundEnd ==
    [][\A l \in Tasks :
          LET t == task[l]
              t2 == task'[l]
          IN  /\ ((EpochStarts(t, t2) \/ EpochContinues(t, t2)) /\ t2.pc \in InEpoch) =>
                    t2.usernames = db_usernames'
              /\ t2.pc \in InTurn =>
                    Range(t2.usernames_to_check) \subseteq Range(t2.usernames)
              /\ t2.pc \in InEpoch =>
                    \A q \in t2.h_epoch_probes : q[3] \in Range(t2.usernames)]_vars

\* The probe in flight is of a username that was removed from the store
\* after the round began.
C32_Witness ==
    \E l \in Tasks :
        /\ task[l].pc = "probe"
        /\ task[l].usernames_to_check[task[l].pos] \notin Range(db_usernames)
        /\ db_usernames # <<>>

\* Username u was probed in the first round of the epoch coroutine t is in,
\* and the snapshot of that epoch holds it.
ProbedInFirstRound(t, u) ==
    /\ t.pc \in InEpoch
    /\ u \in Range(t.usernames)
    /\ \E w \in 0..(t.client_count - 1) : <<0, w, u>> \in t.h_epoch_probes

\* C31: a username that is in the store while the running coroutine does not
\* have it in its snapshot (it was added during the epoch, or during the
\* back-off on an empty store) is probed in the first round of a later epoch
\* whose snapshot holds it, unless it leaves the store first.  (Rounds are
\* followed up to MaxRounds: the addition is made before the last of them.)
C31_AddedIsProbed ==
    \A u \in StorePool :
        (/\ u \in Range(db_usernames)
         /\ InLoop(task[1])
         /\ u \notin Range(task[1].usernames)
         /\ task[1].round_counter < MaxRounds)
        ~> (ProbedInFirstRound(task[1], u) \/ u \notin Range(db_usernames))

\* "a" is in its first probe, the first of an epoch, and only "ab" has been
\* probed before: the epochs before this one did not hold "a" (their turns
\* would have probed it ahead of "ab"), so "a" was added while they ran.
C31_Witness ==
    /\ task[1].pc = "probe"
    /\ task[1].usernames_to_check[task[1].pos] = <<1>>
    /\ task[1].h_epoch_probes = {<<0, 0, <<1>>>>}
    /\ ProbedInFirstRound(task[1], <<1>>)
    /\ <<1, 2>> \in Range(task[1].usernames)
    /\ db_last_checked = << <<1, 2>> >>

\* ---------------------------------- claims on check_username_availability
\* What the oracle must have done for the prober to answer "available": the
\* not-occupied signal, or a failure whose text states one of the known
\* does-not-exist patterns (for a ValueError the two phrases of line 34 as
\* they are written, for any other exception one of the three phrases of
\* line 42 in any letter case).
PositiveSignals ==
    {exc \in ProbeInputs :
        \/ exc.class = "UsernameNotOccupiedError"
        \/ exc.class = "ValueError" /\ exc.text = TextNoUserHas
        \/ /\ exc.class = "Exception"
           /\ exc.text \in {TextNoUserHas, TextNoUserHasLower, TextUserNotFound,
                            TextNoUser, TextDoesNotExist}}

\* C11: check_username_availability always returns (it is called, sleeping
\* out a rate limit, or has returned: no failure reaches the caller), and
\* the value it returns is "available" only on a positive signal: an entity
\* returned, a rate limit and every other failure give "taken".
C11_FailClosed ==
    /\ p_pc \in {"called", "sleeping", "returned"}
    /\ p_pc = "returned" => (p_value <=> p_exc \in PositiveSignals)

\* An exception whose text holds "not found" was answered "available".
C11_Witness ==
    /\ p_pc = "returned"
    /\ p_exc.class = "Exception"
    /\ p_exc.text = TextUserNotFound
    /\ p_value

\* -------------------------------- claims on create_channel_with_fallback
\* C13: the attempts are made on the phones in the order of the pool, one
\* per phone; nothing is attempted after a success; a failed attempt is
\* followed by the next phone, so a dispatch that returns failure has tried
\* them all; a dispatch that returns success names the phone whose attempt
\* succeeded, which is the last one made.
C13_FallbackInPoolOrder ==
    LET n == Len(c_attempts)
    IN  /\ n <= Len(c_clients)
        /\ \A i \in 1..n : c_attempts[i].phone = c_clients[i]
        /\ \A i \in 1..(n - 1) : ~c_attempts[i].success
        /\ c_pc \notin {"called", "returned"} =>
              /\ c_at = n + 1
              /\ \A i \in 1..n : ~c_attempts[i].success
        /\ c_pc = "returned" =>
              IF n > 0 /\ c_attempts[n].success
              THEN /\ c_result.success
                   /\ c_result.message.phone = c_attempts[n].phone
              ELSE /\ ~c_result.success
                   /\ n = Len(c_clients)

\* The pool is [2, 1]: phone 2 lost the username to someone else, phone 1
\* succeeded and the result names phone 1.
C13_Witness ==
    /\ c_pc = "returned"
    /\ c_clients = <<2, 1>>
    /\ Len(c_attempts) = 2
    /\ c_attempts[1].message = MessageOccupied
    /\ c_attempts[2].success
    /\ c_result.success
    /\ c_result.message.phone = 1

\* C14: a dispatch whose attempts all failed (or whose pool is empty) returns
\* failure with the aggregate message and an empty link, and no channel made
\* by an attempt still exists.
C14_NoChannelLeftBehind ==
    (c_pc = "returned" /\ c_result # NoResult /\ ~c_result.success) =>
        /\ c_result = FallbackFailure
        /\ \A phone \in Phones : c_channel[phone] \in {"none", "deleted"}

\* The states create_channel_with_fallback can be in: it is called, awaits a
\* request to Telegram, or has returned; it never sleeps.
DispatcherStates ==
    {"called", "create", "set_username", "send_message", "delete_occupied",
     "delete_other", "returned"}

\* After the attempt at position i the dispatcher is at the next phone, or
\* has returned.
MovedOn(i) ==
    IF i < Len(c_attempts) THEN c_attempts[i + 1].phone # c_attempts[i].phone
    ELSE \/ c_pc = "returned"
         \/ c_at = i + 1 /\ c_clients[c_at] # c_attempts[i].phone

C33_AcquiredIsKeptAndReported ==
    [][/\ \A phone \in Phones :
              c_channel[phone] = "named" => c_channel'[phone] = "named"
       /\ (c_pc # "returned" /\ c_pc' = "returned" /\ ~c_result'.success) =>
              \A phone \in Phones : c_channel'[phone] # "named"]_vars

C35_UpdateKeepsTheUsernames ==
    [][s_call' # s_call =>
          \A readable \in BOOLEAN :
              Range(get_active_usernames([usernames |-> db_usernames',
                                          last_checked |-> db_last_checked'], readable))
              = Range(get_active_usernames([usernames |-> db_usernames,
                                            last_checked |-> db_last_checked], readable))]_vars

====
